---- MODULE Spec2Model ----
(***************************************************************************)
(* Model of yearlyChunks.py: the merge / de-duplication engine (merge),    *)
(* the period fold and date-bound step (mergeErrorReports) and the diff    *)
(* filter (filterByDiff) with its caller createTrainingData.               *)
(*                                                                         *)
(* A pandas DataFrame is a record [kind, cols, rows]: cols is the set of   *)
(* column names and rows the sequence of rows in positional order, each    *)
(* row a function from cols to cell values.  Python's None is the record   *)
(* NoneValue.  Strings that the code inspects character by character       *)
(* (paths) are sequences of one-character strings.                         *)
(***************************************************************************)
EXTENDS Integers, Sequences, FiniteSets, TLC

VARIABLES
    pc,             \* position of the running call
    df1, df2,       \* merge: the caller's two frames (objects passed by reference)
    mergeType,      \* merge / mergeErrorReports: the GroupBy policy
    result,         \* merge / mergeErrorReports: the local `result`
    raised,         \* the exception that ended the call, or "none"
    printed,        \* what the call wrote with print(), in order
    disk,           \* mergeErrorReports: period name -> report table or NoDir
    years,          \* mergeErrorReports: the `years` argument
    lastDate,       \* mergeErrorReports: the `lastDate` argument
    merged,         \* createTrainingData: the frame object handed to filterByDiff
    df,             \* filterByDiff: the local `df`
    diff,           \* filterByDiff: the manifest read from pathToDiff
    modifiedFlags,  \* filterByDiff: the `modifiedFlags` argument
    nRowsBefore,    \* filterByDiff: local
    nRowsAfter,     \* filterByDiff: local
    saved           \* createTrainingData: what to_csv wrote, or NoneValue

vars == <<pc, df1, df2, mergeType, result, raised, printed, disk, years,
          lastDate, merged, df, diff, modifiedFlags, nRowsBefore, nRowsAfter, saved>>

mergeVars == <<df1, df2>>
reportVars == <<disk, years, lastDate>>
diffVars == <<merged, df, diff, modifiedFlags, nRowsBefore, nRowsAfter, saved>>

----------------------------------------------------------------------------
(* Python values *)

NoneValue == [kind |-> "None"]

DataFrame(cols, rows) == [kind |-> "DataFrame", cols |-> cols, rows |-> rows]

IsNone(v) == v.kind = "None"

\* Two source-file paths
FileA == <<"a", ".", "c">>
FileB == <<"b", ".", "c">>

\* frame[mask]: boolean indexing keeps the rows whose mask entry is True,
\* in their order
RECURSIVE BoolIndex(_, _)
BoolIndex(rows, mask) ==
    IF rows = <<>> THEN <<>>
    ELSE (IF Head(mask) THEN <<Head(rows)>> ELSE <<>>)
         \o BoolIndex(Tail(rows), Tail(mask))

\* frame.drop([col], axis=1)
DropColumn(frame, col) ==
    DataFrame(frame.cols \ {col},
              [i \in 1..Len(frame.rows) |->
                  [c \in frame.cols \ {col} |-> frame.rows[i][c]]])

\* frame[col] = values: a column assigned from one value per row
WithColumn(frame, col, values) ==
    DataFrame(frame.cols \cup {col},
              [i \in 1..Len(frame.rows) |->
                  [c \in frame.cols \cup {col} |->
                      IF c = col THEN values[i] ELSE frame.rows[i][c]]])

----------------------------------------------------------------------------
(* merge, lines 24-60 *)

GroupBy == {"FILE_FUNCTION", "FILE_FUNCTION_STUB", "ALL_BUT_DATE",
            "DONT_DROP_DUPLICATES"}

\* Mutant of IsStub: a stub is a function with no line of code at all
IsStubStrict(row) == row["LoC"] < 1

\* df['LoC'] <= 1
IsStub(row) == row["LoC"] <= 1

\* df['Stub'] = (df['LoC'] <= 1), on the caller's object
AddStub(frame) ==
    WithColumn(frame, "Stub", [i \in 1..Len(frame.rows) |-> IsStub(frame.rows[i])])

\* pd.concat([df1, df2]): the rows of df1, then the rows of df2 (the frames
\* of one call share their columns)
Concat(a, b) == DataFrame(a.cols \cup b.cols, a.rows \o b.rows)

\* Mutant of Duplicated: keep='last'
DuplicatedKeepLast(rows, subset, i) ==
    \E j \in (i + 1)..Len(rows) : \A c \in subset : rows[j][c] = rows[i][c]

\* DataFrame.duplicated(subset, keep='first'): row i repeats an earlier row
\* on the columns of subset
Duplicated(rows, subset, i) ==
    \E j \in 1..(i - 1) : \A c \in subset : rows[j][c] = rows[i][c]

\* frame.drop_duplicates(subset, keep='first')
DropDuplicates(frame, subset) ==
    DataFrame(frame.cols,
              BoolIndex(frame.rows,
                        [i \in 1..Len(frame.rows) |->
                            ~Duplicated(frame.rows, subset, i)]))

\* Mutant of AllButDateSubset: the date column stays in the key
AllButDateSubsetWithDate(frame) == frame.cols

\* The key of ALL_BUT_DATE: result.columns.difference([<date column>]),
\* 'Date' looked for first, then 'Date / Version'
AllButDateSubset(frame) ==
    IF "Date" \in frame.cols THEN frame.cols \ {"Date"}
    ELSE frame.cols \ {"Date / Version"}

HasDateColumn(frame) ==
    "Date" \in frame.cols \/ "Date / Version" \in frame.cols

\* The whole call.  Returns the two argument objects as the call leaves them,
\* the returned frame and the lines printed.
merge(a, b, mt) ==
    LET a1 == IF mt = "FILE_FUNCTION_STUB" THEN AddStub(a) ELSE a
        b1 == IF mt = "FILE_FUNCTION_STUB" THEN AddStub(b) ELSE b
        cat == Concat(a1, b1)
        res == CASE mt = "FILE_FUNCTION" ->
                      DropDuplicates(cat, {"Source File", "Element"})
                 [] mt = "FILE_FUNCTION_STUB" ->
                      DropColumn(DropDuplicates(cat,
                                     {"Source File", "Element", "Stub"}),
                                 "Stub")
                 [] mt = "ALL_BUT_DATE" ->
                      IF HasDateColumn(cat)
                      THEN DropDuplicates(cat, AllButDateSubset(cat))
                      ELSE cat
                 [] OTHER -> cat
        out == IF mt = "ALL_BUT_DATE" /\ ~HasDateColumn(cat)
               THEN <<"Error: Date column not found">>
               ELSE <<>>
    IN [df1 |-> a1, df2 |-> b1, result |-> res, printed |-> out]

----------------------------------------------------------------------------
(* mergeErrorReports, lines 62-84 *)

MONTHS == <<"January", "February", "March", "April", "May", "June", "July",
            "August", "September", "October", "November", "December">>

\* os.path.isdir(folder) is False
NoDir == [kind |-> "NoDir"]

\* reportName = y + "-" + m
ReportName(y, m) == <<y, "-", m>>

\* The report names in the order the two nested loops visit them:
\* for y in years: for m in MONTHS
LoopOrder(ys) ==
    [i \in 1..(Len(ys) * Len(MONTHS)) |->
        ReportName(ys[((i - 1) \div Len(MONTHS)) + 1],
                   MONTHS[((i - 1) % Len(MONTHS)) + 1])]

\* Mutant of Accumulate: the new report is merged in front of the accumulator
AccumulateSwapped(acc, frame, mt) ==
    IF IsNone(acc) THEN frame ELSE merge(frame, acc, mt).result

\* One available period: result = df when result is None, else
\* result = merge(result, df, mergeType)
Accumulate(acc, frame, mt) ==
    IF IsNone(acc) THEN frame ELSE merge(acc, frame, mt).result

\* What one loop iteration prints
IterationOutput(acc, entry, name, mt) ==
    IF entry = NoDir THEN <<<<name, " doesn't exist">>>>
    ELSE IF IsNone(acc) THEN <<>>
    ELSE merge(acc, entry, mt).printed

\* The loop of lines 64-75 over the report names `names`, from accumulator
\* acc and output out
RECURSIVE Loop(_, _, _, _, _)
Loop(names, d, mt, acc, out) ==
    IF names = <<>> THEN [result |-> acc, printed |-> out]
    ELSE LET name == Head(names)
             entry == d[name]
         IN Loop(Tail(names), d, mt,
                 IF entry = NoDir THEN acc ELSE Accumulate(acc, entry, mt),
                 out \o IterationOutput(acc, entry, name, mt))

\* datetime.strptime(lastDate, '%d.%m.%Y').date(): day.month.year text to a
\* date (year, month, day)
ParseLastDate(text) == <<text.Y, text.m, text.d>>

\* pd.to_datetime(..., format='%a, %d %b %Y %H:%M:%S %z') then .dt.date: the
\* calendar date the stamp is written with, its time of day dropped
DateObject(stamp) == <<stamp.Y, stamp.m, stamp.d>>

\* Mutant of DateLessEq: the cutoff day itself is excluded
DateLess(a, b) ==
    \/ a[1] < b[1]
    \/ a[1] = b[1] /\ a[2] < b[2]
    \/ a[1] = b[1] /\ a[2] = b[2] /\ a[3] < b[3]

\* datetime.date `<=`: year, then month, then day
DateLessEq(a, b) ==
    \/ a[1] < b[1]
    \/ a[1] = b[1] /\ a[2] < b[2]
    \/ a[1] = b[1] /\ a[2] = b[2] /\ a[3] <= b[3]

\* Lines 78-82 on a frame: the DateObject column is added, the rows with
\* DateObject <= date are selected, the column is dropped again
DateBound(frame, text) ==
    LET date == ParseLastDate(text)
        withObj == WithColumn(frame, "DateObject",
                              [i \in 1..Len(frame.rows) |->
                                  DateObject(frame.rows[i]["Date"])])
        kept == DataFrame(withObj.cols,
                          BoolIndex(withObj.rows,
                                    [i \in 1..Len(withObj.rows) |->
                                        DateLessEq(withObj.rows[i]["DateObject"],
                                                   date)]))
    IN DropColumn(kept, "DateObject")

\* Lines 63-75: result = None, then the loop
FoldPeriods ==
    /\ pc = "fold"
    /\ LET l == Loop(LoopOrder(years), disk, mergeType, NoneValue, <<>>)
       IN /\ result' = l.result
          /\ printed' = printed \o l.printed
    /\ pc' = "cutoff"
    /\ UNCHANGED <<mergeType, raised>>
    /\ UNCHANGED mergeVars
    /\ UNCHANGED reportVars
    /\ UNCHANGED diffVars

\* Lines 77-82: the date-bound step.  With result None, result['Date'] raises
\* TypeError ('NoneType' object is not subscriptable)
CutoffStep ==
    /\ pc = "cutoff"
    /\ IF IsNone(lastDate)
       THEN /\ pc' = "return"
            /\ UNCHANGED <<result, printed, raised>>
       ELSE IF IsNone(result)
       THEN /\ pc' = "error"
            /\ raised' = "TypeError"
            /\ printed' = Append(printed, <<"Drop all reports after: ",
                                            ParseLastDate(lastDate)>>)
            /\ UNCHANGED result
       ELSE /\ pc' = "return"
            /\ result' = DateBound(result, lastDate)
            /\ printed' = Append(printed, <<"Drop all reports after: ",
                                            ParseLastDate(lastDate)>>)
            /\ UNCHANGED raised
    /\ UNCHANGED mergeType
    /\ UNCHANGED mergeVars
    /\ UNCHANGED reportVars
    /\ UNCHANGED diffVars

\* Line 84: return result
ReturnResult ==
    /\ pc = "return"
    /\ pc' = "returned"
    /\ UNCHANGED <<mergeType, result, raised, printed>>
    /\ UNCHANGED mergeVars
    /\ UNCHANGED reportVars
    /\ UNCHANGED diffVars

----------------------------------------------------------------------------
(* filterByDiff, lines 122-151, and the rest of createTrainingData,
   lines 163-171 *)

PyInt(n) == [kind |-> "int", val |-> n]

\* Python's len(): the number of rows of a frame; an int has no len()
PyLen(v) ==
    IF v.kind = "DataFrame" THEN [raised |-> "none", value |-> PyInt(Len(v.rows))]
    ELSE [raised |-> "TypeError"]

\* str.endswith
EndsWith(s, suffix) ==
    /\ Len(suffix) <= Len(s)
    /\ SubSeq(s, Len(s) - Len(suffix) + 1, Len(s)) = suffix

\* str.startswith
StartsWith(s, prefix) ==
    /\ Len(prefix) <= Len(s)
    /\ SubSeq(s, 1, Len(prefix)) = prefix

\* Mutant of Marks: every manifest path is taken as a folder
MarksByPrefix(file, row) == StartsWith(row["Source File"], file)

\* Lines 135-140: the rows one manifest path marks as edited
Marks(file, row) ==
    IF EndsWith(file, <<".", "c">>) \/ EndsWith(file, <<".", "h">>)
    THEN row["Source File"] = file
    ELSE StartsWith(row["Source File"], file)

\* diff[diff['Modified'].isin(modifiedFlags)] when modifiedFlags is given
ConsideredDiff(entries, flags) ==
    IF IsNone(flags) THEN entries
    ELSE BoolIndex(entries, [i \in 1..Len(entries) |->
                                entries[i]["Modified"] \in flags.items])

\* The loop of lines 132-140 over the manifest rows, on the frame
RECURSIVE MarkEdited(_, _)
MarkEdited(frame, entries) ==
    IF entries = <<>> THEN frame
    ELSE MarkEdited(
            WithColumn(frame, "Edited",
                       [i \in 1..Len(frame.rows) |->
                           frame.rows[i]["Edited"]
                           \/ Marks(Head(entries)["File"], frame.rows[i])]),
            Tail(entries))

\* Mutant of DroppedRows: the two row counts are subtracted directly
DroppedRowsDirect(before, after) ==
    [raised |-> "none", value |-> PyInt(before.val - after.val)]

\* nRowsBefore - len(nRowsAfter)
DroppedRows(before, after) ==
    LET n == PyLen(after)
    IN IF n.raised /= "none" THEN n
       ELSE [raised |-> "none", value |-> PyInt(before.val - n.value.val)]

\* Character codes in ASCII order
Alphabet == <<".", "/", "a", "b", "c", "d", "e", "f", "g", "h", "p">>

Code(ch) == CHOOSE i \in DOMAIN Alphabet : Alphabet[i] = ch

\* str `<` on paths
RECURSIVE StrLess(_, _)
StrLess(s, t) ==
    IF t = <<>> THEN FALSE
    ELSE IF s = <<>> THEN TRUE
    ELSE IF Head(s) /= Head(t) THEN Code(Head(s)) < Code(Head(t))
    ELSE StrLess(Tail(s), Tail(t))

\* Row order of sort_values(by=['Source File', 'Element']); element names are
\* single characters
RowLess(r, s) ==
    \/ StrLess(r["Source File"], s["Source File"])
    \/ /\ r["Source File"] = s["Source File"]
       /\ Code(r["Element"]) < Code(s["Element"])

RECURSIVE InsertSorted(_, _)
InsertSorted(rows, r) ==
    IF rows = <<>> THEN <<r>>
    ELSE IF RowLess(r, Head(rows)) THEN <<r>> \o rows
    ELSE <<Head(rows)>> \o InsertSorted(Tail(rows), r)

RECURSIVE SortRows(_)
SortRows(rows) ==
    IF rows = <<>> THEN <<>>
    ELSE InsertSorted(SortRows(SubSeq(rows, 1, Len(rows) - 1)),
                      rows[Len(rows)])

\* merged.sort_values(by=['Source File', 'Element'])
SortValues(frame) == DataFrame(frame.cols, SortRows(frame.rows))

\* Lines 123-146: the filtering step.  df['Edited'] = False and the marks are
\* written to the caller's object; df is then rebound to the selected rows
\* and to the frame without 'Edited'
FilterRows ==
    /\ pc = "filter"
    /\ LET considered == ConsideredDiff(diff, modifiedFlags)
           marked == MarkEdited(WithColumn(df, "Edited",
                                           [i \in 1..Len(df.rows) |-> FALSE]),
                                considered)
           edited == DataFrame(marked.cols,
                               BoolIndex(marked.rows,
                                         [i \in 1..Len(marked.rows) |->
                                             marked.rows[i]["Edited"] = TRUE]))
       IN /\ diff' = considered
          /\ nRowsBefore' = PyLen(df).value
          /\ merged' = marked
          /\ df' = DropColumn(edited, "Edited")
    /\ pc' = "diagnostic"
    /\ UNCHANGED <<modifiedFlags, nRowsAfter, saved>>
    /\ UNCHANGED <<mergeType, result, raised, printed>>
    /\ UNCHANGED mergeVars
    /\ UNCHANGED reportVars

\* Lines 147-151 and, when filterByDiff returns, lines 163-171 of
\* createTrainingData: sort and save
ReportDropped ==
    /\ pc = "diagnostic"
    /\ nRowsAfter' = PyLen(df).value
    /\ LET dropped == DroppedRows(nRowsBefore, nRowsAfter')
       IN IF dropped.raised /= "none"
          THEN /\ pc' = "error"
               /\ raised' = dropped.raised
               /\ UNCHANGED <<printed, merged, saved>>
          ELSE /\ pc' = "done"
               /\ printed' = printed \o <<<<"Dropped ", dropped.value.val, " rows">>,
                                           "Sort", "Save dataset", "Done">>
               /\ merged' = SortValues(df)
               /\ saved' = SortValues(df)
               /\ UNCHANGED raised
    /\ UNCHANGED <<df, diff, modifiedFlags, nRowsBefore>>
    /\ UNCHANGED <<mergeType, result>>
    /\ UNCHANGED mergeVars
    /\ UNCHANGED reportVars

----------------------------------------------------------------------------
(* Inputs of the report specification *)

\* Bound
MaxDiskRows == 2

Years == {"2013", "2014"}

\* The `years` arguments: one year, two years in either order
YearLists == {<<"2013">>, <<"2013", "2014">>, <<"2014", "2013">>}

\* The periods whose directory may exist
Candidates == <<ReportName("2013", "March"), ReportName("2013", "November"),
                ReportName("2014", "January")>>

Stamp(Y, m, d, H) == [Y |-> Y, m |-> m, d |-> d, H |-> H]

\* On the cutoff day late in the evening, the day after, and a month earlier
\* on a later day of the month
ReportDates == {Stamp(2013, 11, 3, 23), Stamp(2013, 11, 4, 0),
                Stamp(2013, 10, 4, 0)}

\* '03.11.2013'
Cutoff == [kind |-> "str", d |-> 3, m |-> 11, Y |-> 2013]

ReportColumns == {"Date", "Source File", "Element", "LoC"}

ReportRows ==
    {[c \in ReportColumns |-> CASE c = "Source File" -> FileA
                                [] c = "Element" -> e
                                [] c = "LoC" -> 1
                                [] OTHER -> d] :
        e \in {"f", "g"}, d \in ReportDates}

\* The contents of the first i candidate directories, holding at most budget
\* rows together: each absent, or a report of some rows
RECURSIVE DiskContents(_, _)
DiskContents(i, budget) ==
    IF i = 0 THEN {<<>>}
    ELSE UNION {
           {Append(rest, e) :
               rest \in DiskContents(i - 1, budget - k),
               e \in {DataFrame(ReportColumns, rs) :
                         rs \in [1..k -> ReportRows]}
                     \cup (IF k = 0 THEN {NoDir} ELSE {})} :
           k \in 0..budget}

AllReportNames == {ReportName(y, MONTHS[j]) : y \in Years, j \in DOMAIN MONTHS}

ReportsInit ==
    /\ pc = "fold"
    /\ mergeType \in GroupBy
    /\ years \in YearLists
    /\ lastDate \in {NoneValue, Cutoff}
    /\ \E c \in DiskContents(Len(Candidates), MaxDiskRows) :
          disk = [n \in AllReportNames |->
                     IF \E i \in DOMAIN Candidates : Candidates[i] = n
                     THEN c[CHOOSE i \in DOMAIN Candidates : Candidates[i] = n]
                     ELSE NoDir]
    /\ result = NoneValue
    /\ raised = "none"
    /\ printed = <<>>
    /\ df1 = NoneValue /\ df2 = NoneValue
    /\ merged = NoneValue /\ df = NoneValue
    /\ diff = <<>> /\ modifiedFlags = NoneValue
    /\ nRowsBefore = NoneValue /\ nRowsAfter = NoneValue /\ saved = NoneValue

ReportsNext == FoldPeriods \/ CutoffStep \/ ReturnResult

SpecReports == ReportsInit /\ [][ReportsNext]_vars

----------------------------------------------------------------------------
(* Inputs of the merge specification *)

\* Bounds
MaxMergeRows == 3

\* ('Source File', 'Element') pairs: two share the file, two the element
MergeKeys == {<<FileA, "f">>, <<FileA, "g">>, <<FileB, "f">>}
MergeLoC == {1, 5}
MergeDates == {"2013-01-01", "2013-02-01"}

DateColumns == {"Date", "Date / Version"}
BaseColumns == {"Source File", "Element", "LoC"}

\* The schemas: one of the two date columns, or none
MergeSchemas == {BaseColumns \cup {d} : d \in DateColumns} \cup {BaseColumns}

\* Every row over the columns cols
RowsOf(cols) ==
    {[c \in cols |-> CASE c = "Source File" -> k[1]
                       [] c = "Element" -> k[2]
                       [] c = "LoC" -> l
                       [] OTHER -> d] :
        k \in MergeKeys, l \in MergeLoC, d \in MergeDates}

MergeInit ==
    /\ pc = "merge"
    /\ mergeType \in GroupBy
    /\ \E cols \in MergeSchemas : \E n \in 0..MaxMergeRows : \E k \in 0..n :
          /\ df1 \in {DataFrame(cols, rs) : rs \in [1..k -> RowsOf(cols)]}
          /\ df2 \in {DataFrame(cols, rs) : rs \in [1..(n - k) -> RowsOf(cols)]}
    /\ result = NoneValue
    /\ raised = "none"
    /\ printed = <<>>
    /\ disk = <<>> /\ years = <<>> /\ lastDate = NoneValue
    /\ merged = NoneValue /\ df = NoneValue
    /\ diff = <<>> /\ modifiedFlags = NoneValue
    /\ nRowsBefore = NoneValue /\ nRowsAfter = NoneValue /\ saved = NoneValue

\* result = merge(df1, df2, mergeType)
MergeCall ==
    /\ pc = "merge"
    /\ LET m == merge(df1, df2, mergeType)
       IN /\ df1' = m.df1
          /\ df2' = m.df2
          /\ result' = m.result
          /\ printed' = printed \o m.printed
    /\ pc' = "returned"
    /\ UNCHANGED <<mergeType, raised>>
    /\ UNCHANGED reportVars
    /\ UNCHANGED diffVars

MergeNext == MergeCall

SpecMerge == MergeInit /\ [][MergeNext]_vars

----------------------------------------------------------------------------
(* Inputs of the diff specification *)

\* Bounds
MaxDiffRows == 2
MaxDiffEntries == 2

\* d/a.c, d/a.cpp, e/b.h
DiffFiles == {<<"d", "/", "a", ".", "c">>,
              <<"d", "/", "a", ".", "c", "p", "p">>,
              <<"e", "/", "b", ".", "h">>}

\* A folder, a source file and a header
ManifestPaths == {<<"d", "/">>,
                  <<"d", "/", "a", ".", "c">>,
                  <<"e", "/", "b", ".", "h">>}

Flags == {"M", "A"}

DiffColumns == {"Source File", "Element"}

DiffRows ==
    {[c \in DiffColumns |-> IF c = "Source File" THEN f ELSE e] :
        f \in DiffFiles, e \in {"f", "g"}}

ManifestEntries ==
    {[c \in {"File", "Modified"} |-> IF c = "File" THEN f ELSE m] :
        f \in ManifestPaths, m \in Flags}

DiffInit ==
    /\ pc = "filter"
    /\ \E n \in 0..MaxDiffRows :
          merged \in {DataFrame(DiffColumns, rs) : rs \in [1..n -> DiffRows]}
    /\ df = merged
    /\ \E n \in 0..MaxDiffEntries : diff \in [1..n -> ManifestEntries]
    /\ modifiedFlags \in {NoneValue}
                         \cup {[kind |-> "list", items |-> S] : S \in SUBSET Flags}
    /\ nRowsBefore = NoneValue /\ nRowsAfter = NoneValue /\ saved = NoneValue
    /\ mergeType = "FILE_FUNCTION_STUB"
    /\ result = NoneValue
    /\ raised = "none"
    /\ printed = <<>>
    /\ df1 = NoneValue /\ df2 = NoneValue
    /\ disk = <<>> /\ years = <<>> /\ lastDate = NoneValue

DiffNext == FilterRows \/ ReportDropped

SpecDiff == DiffInit /\ [][DiffNext]_vars

----------------------------------------------------------------------------
(* Properties of merge *)

MergeReturns == pc = "merge" /\ pc' = "returned"

\* out keeps, for every row of cat, exactly one row that Same relates to it,
\* and that row is the first row of cat that Same relates to it (cut to the
\* columns cols); out holds nothing else
KeepsFirstOccurrence(cat, out, cols, Same(_, _)) ==
    /\ \A k \in DOMAIN out : \E i \in DOMAIN cat : Same(cat[i], out[k])
    /\ \A i \in DOMAIN cat :
          LET first == CHOOSE j \in 1..i :
                           /\ Same(cat[j], cat[i])
                           /\ \A h \in 1..(j - 1) : ~Same(cat[h], cat[i])
          IN \E k \in DOMAIN out :
                /\ out[k] = [c \in cols |-> cat[first][c]]
                /\ \A k2 \in DOMAIN out : Same(out[k2], cat[i]) => k2 = k

SameFileFunction(r, s) ==
    r["Source File"] = s["Source File"] /\ r["Element"] = s["Element"]

SameFileFunctionStub(r, s) ==
    /\ SameFileFunction(r, s)
    /\ (r["LoC"] <= 1) = (s["LoC"] <= 1)

\* C1: merge(A, B, FILE_FUNCTION) holds exactly one row for each
\* ('Source File', 'Element') pair of A or B, and it is the first occurrence
\* of the pair in A then B: a row of A wins over a colliding row of B, a row
\* of B is kept only when no row of A has its pair.
C1_FileFunctionKeepsFirst ==
    [][(MergeReturns /\ mergeType = "FILE_FUNCTION") =>
          /\ result'.cols = df1.cols \cup df2.cols
          /\ KeepsFirstOccurrence(df1.rows \o df2.rows, result'.rows,
                                  df1.cols, SameFileFunction)]_vars

\* A row of B that collides with a row of A was dropped and a row of B whose
\* pair A lacks was kept
C1_Witness ==
    /\ pc = "returned" /\ mergeType = "FILE_FUNCTION"
    /\ \E i \in DOMAIN df1.rows : \E j, h \in DOMAIN df2.rows :
          /\ SameFileFunction(df1.rows[i], df2.rows[j])
          /\ df1.rows[i] /= df2.rows[j]
          /\ ~SameFileFunction(df1.rows[i], df2.rows[h])
          /\ result.rows = <<df1.rows[i], df2.rows[h]>>

\* C2: merge(A, B, FILE_FUNCTION_STUB) treats two rows as duplicates iff they
\* agree on 'Source File', 'Element' and Stub = (LoC <= 1), keeps the first
\* occurrence in A then B, and returns a table without a 'Stub' column.
C2_FileFunctionStubKeepsFirst ==
    [][(MergeReturns /\ mergeType = "FILE_FUNCTION_STUB") =>
          /\ result'.cols = df1.cols \cup df2.cols
          /\ "Stub" \notin result'.cols
          /\ KeepsFirstOccurrence(df1.rows \o df2.rows, result'.rows,
                                  df1.cols, SameFileFunctionStub)]_vars

\* A stub of A and an implementation of B for the same file and element are
\* both in the result, and a second stub was dropped
C2_Witness ==
    /\ pc = "returned" /\ mergeType = "FILE_FUNCTION_STUB"
    /\ "Stub" \notin result.cols
    /\ Len(df1.rows) = 1 /\ Len(df2.rows) = 2 /\ Len(result.rows) = 2
    /\ SameFileFunction(df1.rows[1], df2.rows[1])
    /\ SameFileFunction(df1.rows[1], df2.rows[2])
    /\ df1.rows[1]["LoC"] = 1 /\ df2.rows[1]["LoC"] = 5
    /\ df2.rows[2]["LoC"] = 1
    /\ result.rows[1]["LoC"] = 1 /\ result.rows[2]["LoC"] = 5

\* The date column of a table that carries exactly one
DateColumnOf(cols) == CHOOSE d \in DateColumns : d \in cols

ExactlyOneDateColumn(cols) == Cardinality(cols \cap DateColumns) = 1

C4_MissingDateColumnIsFatal ==
    (/\ pc = "returned" /\ mergeType = "ALL_BUT_DATE"
     /\ ~HasDateColumn(df1) /\ ~HasDateColumn(df2))
        => (raised /= "none" /\ IsNone(result))

\* C5 (as claimed): merge leaves both input tables unchanged, rows and
\* columns, for every policy.
C5_InputsUnchanged ==
    [][MergeReturns => (df1' = df1 /\ df2' = df2)]_vars

----------------------------------------------------------------------------
(* Properties of mergeErrorReports *)

\* The day number of a calendar date
DayNumber(Y, m, d) == Y * 10000 + m * 100 + d

\* C6: the date-bound step keeps exactly the rows whose date, time of day
\* ignored, is on or before the cutoff (the cutoff day included), in their
\* order and with all their columns, and drops the rows dated after it.
C6_CutoffKeepsOnOrBefore ==
    [][(pc = "cutoff" /\ pc' = "return" /\ ~IsNone(lastDate)) =>
          LET cut == DayNumber(lastDate.Y, lastDate.m, lastDate.d)
              day(row) == DayNumber(row["Date"].Y, row["Date"].m, row["Date"].d)
              kept == {i \in DOMAIN result.rows : day(result.rows[i]) <= cut}
          IN /\ result'.cols = result.cols
             /\ Len(result'.rows) = Cardinality(kept)
             /\ \A i \in kept :
                   result'.rows[Cardinality({j \in kept : j <= i})]
                       = result.rows[i]]_vars

\* A report row of the cutoff day (23 h) was kept and a report row of the day
\* after was dropped
C6_Witness ==
    /\ pc = "return" /\ ~IsNone(lastDate) /\ ~IsNone(result)
    /\ Len(result.rows) = 1
    /\ result.rows[1]["Date"] = Stamp(2013, 11, 3, 23)
    /\ \E n \in AllReportNames :
          /\ disk[n] /= NoDir
          /\ \E i \in DOMAIN disk[n].rows :
                disk[n].rows[i]["Date"] = Stamp(2013, 11, 4, 0)
    /\ \E i \in DOMAIN years : years[i] = "2014"

\* C8 (as claimed): whatever periods are absent, none included, and with or
\* without a cutoff date, mergeErrorReports ends without a fatal error.
C8_MissingPeriodNeverFatal == raised = "none" /\ pc /= "error"

\* The available periods as (position of the year in years, month number)
AvailablePeriods ==
    {p \in (DOMAIN years) \X (DOMAIN MONTHS) :
        disk[ReportName(years[p[1]], MONTHS[p[2]])] /= NoDir}

Earlier(p, q) == p[1] < q[1] \/ (p[1] = q[1] /\ p[2] < q[2])

\* The k-th available period in calendar order, and its table
NthPeriod(k) ==
    CHOOSE p \in AvailablePeriods :
        Cardinality({q \in AvailablePeriods : Earlier(q, p)}) = k - 1

NthTable(k) ==
    LET p == NthPeriod(k) IN disk[ReportName(years[p[1]], MONTHS[p[2]])]

\* merge folded from the left over the first n available tables
RECURSIVE FoldMerge(_)
FoldMerge(n) ==
    IF n = 1 THEN NthTable(1)
    ELSE merge(FoldMerge(n - 1), NthTable(n), mergeType).result

\* The key of the policy on report tables (they carry 'Date')
PolicySame(r, s) ==
    CASE mergeType = "FILE_FUNCTION" -> SameFileFunction(r, s)
      [] mergeType = "FILE_FUNCTION_STUB" -> SameFileFunctionStub(r, s)
      [] mergeType = "ALL_BUT_DATE" ->
            \A c \in ReportColumns \ {"Date"} : r[c] = s[c]
      [] OTHER -> FALSE

----------------------------------------------------------------------------
(* Properties of filterByDiff *)

HasSuffix(s, a, b) == Len(s) >= 2 /\ s[Len(s) - 1] = a /\ s[Len(s)] = b

IsPrefixOf(p, s) == Len(p) <= Len(s) /\ \A i \in DOMAIN p : s[i] = p[i]

\* A manifest entry is considered iff no flags are given or its flag is given
Considered(entry, flags) == IsNone(flags) \/ entry["Modified"] \in flags.items

\* An entry naming a .c or .h file matches the row of exactly that file, any
\* other entry the rows whose file starts with its path
EntryMatches(entry, row) ==
    IF HasSuffix(entry["File"], ".", "c") \/ HasSuffix(entry["File"], ".", "h")
    THEN entry["File"] = row["Source File"]
    ELSE IsPrefixOf(entry["File"], row["Source File"])

\* C7: the table computed by the filtering step holds exactly the rows (in
\* their order) that at least one considered manifest entry matches, and has
\* no 'Edited' column.
C7_FilterKeepsMatchedRows ==
    [][(pc = "filter" /\ pc' = "diagnostic") =>
          LET kept == {i \in DOMAIN df.rows :
                          \E k \in DOMAIN diff :
                             /\ Considered(diff[k], modifiedFlags)
                             /\ EntryMatches(diff[k], df.rows[i])}
          IN /\ df'.cols = df.cols
             /\ "Edited" \notin df'.cols
             /\ Len(df'.rows) = Cardinality(kept)
             /\ \A i \in kept :
                   df'.rows[Cardinality({j \in kept : j <= i})] = df.rows[i]]_vars

\* Flags are given and the considered manifest is the one file entry d/a.c:
\* of the rows d/a.cpp and d/a.c only d/a.c is in the table
C7_Witness ==
    /\ pc = "diagnostic"
    /\ modifiedFlags = [kind |-> "list", items |-> {"M"}]
    /\ diff = <<[File |-> <<"d", "/", "a", ".", "c">>, Modified |-> "M"]>>
    /\ Len(merged.rows) = 2
    /\ merged.rows[1]["Source File"] = <<"d", "/", "a", ".", "c", "p", "p">>
    /\ merged.rows[2]["Source File"] = <<"d", "/", "a", ".", "c">>
    /\ Len(df.rows) = 1
    /\ df.rows[1]["Source File"] = <<"d", "/", "a", ".", "c">>
    /\ "Edited" \notin df.cols

\* C10: the dropped-row diagnostic takes len() of the scalar after-filter row
\* count, so on every input the diagnostic step ends in an error: filterByDiff
\* never returns the filtered table and createTrainingData never sorts or
\* saves.
C10_DiagnosticAlwaysRaises ==
    /\ pc \in {"filter", "diagnostic", "error"}
    /\ pc = "error" => (raised = "TypeError" /\ nRowsAfter.kind = "int")
    /\ IsNone(saved)

\* The filter dropped a row and kept a row, and the diagnostic step raised
\* with nothing printed and nothing saved
C10_Witness ==
    /\ pc = "error" /\ raised = "TypeError"
    /\ nRowsBefore = PyInt(2) /\ nRowsAfter = PyInt(1)
    /\ Len(df.rows) = 1
    /\ printed = <<>>
    /\ IsNone(saved)

====
